---- MODULE Spec2Model ----
(***************************************************************************)
(* A model of the HTTP message layer of HttpServer-rs: the validated       *)
(* header collection (crates/http-core/src/headers.rs), the status-code    *)
(* domain (crates/rin_core/src/status.rs), the request parser              *)
(* (crates/http-core/src/request.rs), the response builder and serializer  *)
(* (crates/http-core/src/response.rs) and the query-parameter cache        *)
(* (crates/rin_core/src/request.rs).                                       *)
(*                                                                         *)
(* Strings are sequences of Unicode scalar values (naturals); byte buffers *)
(* are sequences of naturals below 256.  Each component has its own        *)
(* specification (SpecHeaders, SpecValidate, SpecStatus, SpecParse and its *)
(* variants, SpecBuilder, SpecQuery); the variables of the other           *)
(* components keep their initial value.                                    *)
(***************************************************************************)
EXTENDS Integers, Sequences, FiniteSets, TLC

VARIABLES
    headers,    \* Headers.headers: the HashMap<HeaderName, HeaderValue>
    hcall,      \* the last call made on the collection, with its arguments
    hret,       \* what that call returned
    hops,       \* number of insert calls made so far
    vIn,        \* the string handed to HeaderName/HeaderValue::from_str
    vOut,       \* the results of the two constructors on vIn
    sIn,        \* the u16 handed to StatusCode::new
    sOut,       \* the Result it returned
    sView,      \* code(), reason_phrase() and the class predicates of the value
    pIn,        \* the byte buffer handed to parse_request, with its parts
    pOut,       \* the Result parse_request returned
    pCalls,     \* number of calls of parse_request that have failed so far
    builder,    \* the ResponseBuilder: status, headers, body
    calls,      \* the calls made on the builder so far, with their arguments
    response,   \* the Response that build() returned
    wire,       \* the Result of the last to_bytes() on that Response
    params,     \* QueryCache.params: the HashMap<String, QueryValue>
    qlog,       \* the (key, value) pairs inserted into the cache so far
    qret        \* the last get or get_all call on the cache and what it returned

vars == <<headers, hcall, hret, hops, vIn, vOut, sIn, sOut, sView, pIn, pOut, pCalls,
          builder, calls, response, wire, params, qlog, qret>>

hvars == <<headers, hcall, hret, hops>>
vvars == <<vIn, vOut>>
svars == <<sIn, sOut, sView>>
pvars == <<pIn, pOut, pCalls>>
rvars == <<builder, calls, response, wire>>
qvars == <<params, qlog, qret>>

----------------------------------------------------------------------------
(* Bounds of the model.                                                    *)

MaxNameLen == 1
MaxValueLen == 1
MaxInserts == 2
MaxStrLen == 3
MaxHeaderLines == 1
MaxBodyLen == 1
MaxRetries == 2
MaxExtraHeaders == 2
MaxBuilderCalls == 3
MaxQueryInserts == 3

(* Strings over an alphabet, up to a length.                               *)
StringsUpTo(chars, n) == UNION {[1..k -> chars] : k \in 0..n}

----------------------------------------------------------------------------
(* Characters: char::is_control is the general category Cc, and            *)
(* char::is_whitespace the Unicode property White_Space.                   *)

IsControl(c) == c \in (0..31) \cup (127..159)

IsWhitespace(c) ==
    c \in (9..13) \cup {32, 133, 160, 5760} \cup (8192..8202)
          \cup {8232, 8233, 8239, 8287, 12288}

RECURSIVE TrimStart(_)
TrimStart(s) ==
    IF s = <<>> THEN s
    ELSE IF IsWhitespace(Head(s)) THEN TrimStart(Tail(s)) ELSE s

RECURSIVE TrimEnd(_)
TrimEnd(s) ==
    IF s = <<>> THEN s
    ELSE IF IsWhitespace(s[Len(s)]) THEN TrimEnd(SubSeq(s, 1, Len(s) - 1)) ELSE s

\* str::trim
Trim(s) == TrimEnd(TrimStart(s))

----------------------------------------------------------------------------
(* headers.rs: the two validated newtypes.                                 *)

InvalidName(s) == [ok |-> FALSE, err |-> "InvalidName", arg |-> s]
InvalidValue == [ok |-> FALSE, err |-> "InvalidValue"]
Ok(v) == [ok |-> TRUE, val |-> v]
\* A call that has not been made yet
Pending == [ok |-> FALSE, err |-> "pending"]

\* A from_str that forgets the whitespace test.
HeaderNameFromStrNoWhitespaceTest(s) ==
    IF Trim(s) = <<>> \/ \E i \in 1..Len(s) : IsControl(s[i])
    THEN InvalidName(s)
    ELSE Ok(s)

\* HeaderName::from_str
HeaderNameFromStr(s) ==
    IF Trim(s) = <<>> \/ \E i \in 1..Len(s) : IsControl(s[i]) \/ IsWhitespace(s[i])
    THEN InvalidName(s)
    ELSE Ok(s)

\* A from_str that lets a line feed through.
HeaderValueFromStrLineFeed(s) ==
    IF \E i \in 1..Len(s) : IsControl(s[i]) /\ s[i] # 9 /\ s[i] # 10
    THEN InvalidValue
    ELSE Ok(s)

\* A from_str that forgets the exemption of the tab.
HeaderValueFromStrNoTab(s) ==
    IF \E i \in 1..Len(s) : IsControl(s[i])
    THEN InvalidValue
    ELSE Ok(s)

\* HeaderValue::from_str
HeaderValueFromStr(s) ==
    IF \E i \in 1..Len(s) : IsControl(s[i]) /\ s[i] # 9
    THEN InvalidValue
    ELSE Ok(s)

----------------------------------------------------------------------------
(* headers.rs: the collection.  A HashMap is a function from the stored    *)
(* names to their values; HeaderName derives Eq and Hash from its String,  *)
(* so two keys are the same key iff they are the same sequence.            *)

\* Headers::new
HeadersNew == <<>>

\* An insert that keeps the value already stored for the key.
MapInsertKeepFirst(m, k, v) ==
    [n \in (DOMAIN m) \cup {k} |-> IF n \in DOMAIN m THEN m[n] ELSE v]

\* HashMap::insert
MapInsert(m, k, v) == [n \in (DOMAIN m) \cup {k} |-> IF n = k THEN v ELSE m[n]]

\* An insert that validates nothing.
HeadersInsertUnchecked(m, name, value) ==
    [map |-> MapInsert(m, name, value), ret |-> Ok(<<>>)]

\* An insert that stores the entry before the value is validated.
HeadersInsertEager(m, name, value) ==
    LET n == HeaderNameFromStr(name)
        v == HeaderValueFromStr(value)
    IN  IF ~n.ok THEN [map |-> m, ret |-> n]
        ELSE IF ~v.ok THEN [map |-> MapInsert(m, n.val, value), ret |-> v]
        ELSE [map |-> MapInsert(m, n.val, v.val), ret |-> Ok(<<>>)]

\* Headers::insert: the new collection and the returned Result
HeadersInsert(m, name, value) ==
    LET n == HeaderNameFromStr(name)
        v == HeaderValueFromStr(value)
    IN  IF ~n.ok THEN [map |-> m, ret |-> n]
        ELSE IF ~v.ok THEN [map |-> m, ret |-> v]
        ELSE [map |-> MapInsert(m, n.val, v.val), ret |-> Ok(<<>>)]

None == [some |-> FALSE]
Some(v) == [some |-> TRUE, val |-> v]

\* Headers::get: the key is built from the argument without validation
HeadersGet(m, name) == IF name \in DOMAIN m THEN Some(m[name]) ELSE None

\* The entries of the map, as (name, value) pairs
Entries(m) == {<<n, m[n]>> : n \in DOMAIN m}

\* An iteration that stops one entry short.
HeadersIterShort(m) ==
    LET S == Entries(m)
        k == Cardinality(S)
    IN  IF k = 0 THEN {<<>>}
        ELSE {SubSeq(f, 1, k - 1) :
                f \in {g \in [1..k -> S] : \A e \in S : \E i \in 1..k : g[i] = e}}

\* Headers::iter: HashMap::iter visits every entry once, in an arbitrary order
HeadersIter(m) ==
    LET S == Entries(m)
        k == Cardinality(S)
    IN  {f \in [1..k -> S] : \A e \in S : \E i \in 1..k : f[i] = e}

----------------------------------------------------------------------------
(* The header collection as a state machine: a caller owning one Headers   *)
(* value calls insert, get and iter on it in any order.                    *)

\* space, 'H', 'h'
NameChars == {32, 72, 104}
\* NUL, tab
ValueChars == {0, 9}

NameInputs == StringsUpTo(NameChars, MaxNameLen)
ValueInputs == StringsUpTo(ValueChars, MaxValueLen)

NoCall == [op |-> "new", name |-> <<>>, value |-> <<>>]

InitIdleHeaders ==
    /\ headers = HeadersNew
    /\ hcall = NoCall
    /\ hret = Ok(<<>>)
    /\ hops = 0

InitIdleValidate == vIn = <<>> /\ vOut = "idle"
InitIdleStatus == sIn = 0 /\ sOut = "idle" /\ sView = "idle"
\* No buffer, no builder
NoInput == [idle |-> TRUE]
NoBuilder == [idle |-> TRUE]
InitIdleParse == pIn = NoInput /\ pOut = "idle" /\ pCalls = 0
InitIdleResponse ==
    builder = NoBuilder /\ calls = <<>> /\ response = "idle" /\ wire = "idle"
InitIdleQuery == params = "idle" /\ qlog = <<>> /\ qret = "idle"

InitHeaders ==
    InitIdleHeaders /\ InitIdleValidate /\ InitIdleStatus /\ InitIdleParse /\ InitIdleResponse /\ InitIdleQuery

Insert(name, value) ==
    /\ hops < MaxInserts
    /\ LET r == HeadersInsert(headers, name, value)
       IN  /\ headers' = r.map
           /\ hret' = r.ret
    /\ hcall' = [op |-> "insert", name |-> name, value |-> value]
    /\ hops' = hops + 1
    /\ UNCHANGED <<vvars, svars, pvars, rvars, qvars>>

Get(name) ==
    /\ hret' = HeadersGet(headers, name)
    /\ hcall' = [op |-> "get", name |-> name, value |-> <<>>]
    /\ UNCHANGED <<headers, hops, vvars, svars, pvars, rvars, qvars>>

Iter ==
    /\ \E items \in HeadersIter(headers) : hret' = items
    /\ hcall' = [op |-> "iter", name |-> <<>>, value |-> <<>>]
    /\ UNCHANGED <<headers, hops, vvars, svars, pvars, rvars, qvars>>

NextHeaders ==
    \/ \E name \in NameInputs, value \in ValueInputs : Insert(name, value)
    \/ \E name \in NameInputs : Get(name)
    \/ Iter

SpecHeaders == InitHeaders /\ [][NextHeaders]_vars

----------------------------------------------------------------------------
(* The validation rules as the documentation states them.                  *)

\* Control characters and white space among the characters the model draws
ControlChars == (0..31) \cup (127..159)
WhitespaceChars == {9, 10, 11, 12, 13, 32, 133, 160}

NameRuleFails(s) ==
    \/ \A i \in 1..Len(s) : s[i] \in WhitespaceChars
    \/ \E i \in 1..Len(s) : s[i] \in ControlChars \cup WhitespaceChars

ValueRuleFails(s) == \E i \in 1..Len(s) : s[i] \in ControlChars \ {9}

SameLookups(m1, m2) ==
    /\ \A n \in NameInputs : HeadersGet(m1, n) = HeadersGet(m2, n)
    /\ Entries(m1) = Entries(m2)

\* C1: an insert whose name fails the name rule returns InvalidName, one whose
\* name passes and whose value fails the value rule returns InvalidValue, and
\* in both cases every get and the set of iterated pairs are what they were
\* before the call.
C1_InsertStep ==
    hcall'.op = "insert" /\ hops' = hops + 1 =>
        LET nm == hcall'.name
            vl == hcall'.value
        IN  /\ NameRuleFails(nm) =>
                hret' = InvalidName(nm) /\ SameLookups(headers', headers)
            /\ ~NameRuleFails(nm) /\ ValueRuleFails(vl) =>
                hret' = InvalidValue /\ SameLookups(headers', headers)

C1_InsertFailureAtomic == [][C1_InsertStep]_vars

\* C1 witness: a valid name already stored, then an insert for that very name
\* with an invalid value was refused and the earlier value is still there.
C1_Witness ==
    /\ hcall.op = "insert"
    /\ hret = InvalidValue
    /\ hcall.name \in DOMAIN headers
    /\ headers[hcall.name] # hcall.value

\* C1 second case, reached as well: an invalid name on a non-empty collection.
C1_WitnessName ==
    /\ hcall.op = "insert"
    /\ hret = InvalidName(hcall.name)
    /\ headers # HeadersNew

\* C2: a successful insert of (k, v) makes get(k) return v and leaves the
\* answer of get for every other name, names differing from k only in letter
\* case included, as it was; get answers from the collection as it stands and
\* changes nothing; a new collection answers not-found for every name; no name
\* is iterated twice.
C2_Step ==
    /\ hops = 0 => \A n \in NameInputs : HeadersGet(headers, n) = None
    /\ hcall'.op = "insert" /\ hops' = hops + 1 /\
       ~NameRuleFails(hcall'.name) /\ ~ValueRuleFails(hcall'.value) =>
            /\ hret' = Ok(<<>>)
            /\ HeadersGet(headers', hcall'.name) = Some(hcall'.value)
            /\ \A n \in NameInputs \ {hcall'.name} :
                    HeadersGet(headers', n) = HeadersGet(headers, n)
    /\ hcall'.op = "get" =>
            /\ headers' = headers
            /\ hret' = HeadersGet(headers, hcall'.name)
    /\ hcall'.op = "iter" =>
            \A i, j \in 1..Len(hret') : hret'[i][1] = hret'[j][1] => i = j

C2_LastInsertWins == [][C2_Step]_vars

\* C2 witness: "H" was stored twice with different values, the second insert
\* succeeded and the stored value is the second one.
C2_Witness ==
    /\ hcall.op = "insert"
    /\ hops = 2
    /\ hret = Ok(<<>>)
    /\ DOMAIN headers = {<<72>>}
    /\ headers[<<72>>] = <<9>>
    /\ hcall.value = <<9>>

\* C2, the letter-case part, reached as well: "H" is stored and get("h") is
\* not-found.
C2_WitnessCase ==
    /\ hcall.op = "get"
    /\ hcall.name = <<104>>
    /\ <<72>> \in DOMAIN headers
    /\ hret = None

\* C5: an iteration yields every stored pair once and nothing else, and leaves
\* the collection as it was (so a second iteration yields the same set, and an
\* iteration after an insert yields the collection the insert left).
C5_IterStep ==
    hcall'.op = "iter" =>
        /\ headers' = headers
        /\ Len(hret') = Cardinality(Entries(headers))
        /\ {hret'[i] : i \in 1..Len(hret')} = Entries(headers)
        /\ \A i, j \in 1..Len(hret') : hret'[i] = hret'[j] => i = j

C5_IterExactlyOnce == [][C5_IterStep]_vars

\* C5 witness: an iteration over two stored pairs.
C5_Witness ==
    /\ hcall.op = "iter"
    /\ Cardinality(DOMAIN headers) = 2
    /\ Len(hret) = 2

----------------------------------------------------------------------------
(* The two constructors as pure functions: the string is drawn at the      *)
(* start, then each constructor is applied to it once.                     *)

\* NUL, tab, LF, space, 'A', 'a', DEL, NEL (U+0085), NBSP (U+00A0)
ValidateChars == {0, 9, 10, 32, 65, 97, 127, 133, 160}

ValidateInputs == StringsUpTo(ValidateChars, MaxStrLen)

InitValidate ==
    /\ vIn \in ValidateInputs
    /\ vOut = [name |-> Pending, value |-> Pending]
    /\ InitIdleHeaders /\ InitIdleStatus /\ InitIdleParse /\ InitIdleResponse /\ InitIdleQuery

ConstructName ==
    /\ vOut.name = Pending
    /\ vOut' = [vOut EXCEPT !.name = HeaderNameFromStr(vIn)]
    /\ UNCHANGED <<vIn, hvars, svars, pvars, rvars, qvars>>

ConstructValue ==
    /\ vOut.value = Pending
    /\ vOut' = [vOut EXCEPT !.value = HeaderValueFromStr(vIn)]
    /\ UNCHANGED <<vIn, hvars, svars, pvars, rvars, qvars>>

NextValidate == ConstructName \/ ConstructValue

SpecValidate == InitValidate /\ [][NextValidate]_vars

C3_WitnessAccepted ==
    /\ vIn = <<65, 97>>
    /\ vOut.name = Ok(<<65, 97>>)

\* C4: constructing a HeaderValue fails with InvalidValue iff the string holds
\* a control character other than the tab; otherwise it succeeds and keeps the
\* string as it is.
C4_HeaderValueRule ==
    vOut.value # Pending =>
        vOut.value = IF ValueRuleFails(vIn) THEN InvalidValue ELSE Ok(vIn)

\* C4 witness: a value made of a tab and a space was accepted unchanged.
C4_Witness ==
    /\ vIn = <<9, 32>>
    /\ vOut.value = Ok(<<9, 32>>)

\* C4, the failure side, reached as well: a line feed in the value.
C4_WitnessRejected ==
    /\ vIn = <<65, 10>>
    /\ vOut.value = InvalidValue

----------------------------------------------------------------------------
(* status.rs: StatusCode is a u16 in a newtype whose field is private: a   *)
(* value is made by StatusCode::new or is one of the named constants.      *)

U16 == 0..65535

InvalidStatusCode(code) == [ok |-> FALSE, err |-> "InvalidStatusCode", arg |-> code]

\* A range test that is off by one at both ends.
StatusCodeNewExclusive(code) ==
    IF code <= 100 \/ code >= 599 THEN InvalidStatusCode(code) ELSE Ok(code)

\* StatusCode::new
StatusCodeNew(code) ==
    IF code < 100 \/ code > 599 THEN InvalidStatusCode(code) ELSE Ok(code)

\* The named constants of impl StatusCode
StatusConstants ==
    [ CONTINUE |-> 100, SWITCHING_PROTOCOLS |-> 101, PROCESSING |-> 102,
      EARLY_HINTS |-> 103,
      OK |-> 200, CREATED |-> 201, ACCEPTED |-> 202,
      NON_AUTHORITATIVE_INFORMATION |-> 203, NO_CONTENT |-> 204,
      RESET_CONTENT |-> 205, PARTIAL_CONTENT |-> 206,
      MULTIPLE_CHOICES |-> 300, MOVED_PERMANENTLY |-> 301, FOUND |-> 302,
      SEE_OTHER |-> 303, NOT_MODIFIED |-> 304, TEMPORARY_REDIRECT |-> 307,
      PERMANENT_REDIRECT |-> 308,
      BAD_REQUEST |-> 400, UNAUTHORIZED |-> 401, PAYMENT_REQUIRED |-> 402,
      FORBIDDEN |-> 403, NOT_FOUND |-> 404, METHOD_NOT_ALLOWED |-> 405,
      NOT_ACCEPTABLE |-> 406, REQUEST_TIMEOUT |-> 408, CONFLICT |-> 409,
      GONE |-> 410, UNPROCESSABLE_ENTITY |-> 422, TOO_MANY_REQUESTS |-> 429,
      INTERNAL_SERVER_ERROR |-> 500, NOT_IMPLEMENTED |-> 501,
      BAD_GATEWAY |-> 502, SERVICE_UNAVAILABLE |-> 503,
      GATEWAY_TIMEOUT |-> 504, HTTP_VERSION_NOT_SUPPORTED |-> 505 ]

ConstantNames == DOMAIN StatusConstants

\* A table that lost its 429 row.
ReasonPhraseNo429(c) ==
    CASE c = 100 -> "Continue"
      [] c = 200 -> "OK"
      [] c = 404 -> "Not Found"
      [] c \in {101, 102, 103} \cup (201..206) \cup (300..304) \cup {307, 308}
              \cup (400..406) \cup {408, 409, 410, 422} \cup (500..505) -> "Other"
      [] OTHER -> "Unknown"

\* StatusCode::reason_phrase
ReasonPhrase(c) ==
    CASE c = 100 -> "Continue"
      [] c = 101 -> "Switching Protocols"
      [] c = 102 -> "Processing"
      [] c = 103 -> "Early Hints"
      [] c = 200 -> "OK"
      [] c = 201 -> "Created"
      [] c = 202 -> "Accepted"
      [] c = 203 -> "Non-Authoritative Information"
      [] c = 204 -> "No Content"
      [] c = 205 -> "Reset Content"
      [] c = 206 -> "Partial Content"
      [] c = 300 -> "Multiple Choices"
      [] c = 301 -> "Moved Permanently"
      [] c = 302 -> "Found"
      [] c = 303 -> "See Other"
      [] c = 304 -> "Not Modified"
      [] c = 307 -> "Temporary Redirect"
      [] c = 308 -> "Permanent Redirect"
      [] c = 400 -> "Bad Request"
      [] c = 401 -> "Unauthorized"
      [] c = 402 -> "Payment Required"
      [] c = 403 -> "Forbidden"
      [] c = 404 -> "Not Found"
      [] c = 405 -> "Method Not Allowed"
      [] c = 406 -> "Not Acceptable"
      [] c = 408 -> "Request Timeout"
      [] c = 409 -> "Conflict"
      [] c = 410 -> "Gone"
      [] c = 422 -> "Unprocessable Entity"
      [] c = 429 -> "Too Many Requests"
      [] c = 500 -> "Internal Server Error"
      [] c = 501 -> "Not Implemented"
      [] c = 502 -> "Bad Gateway"
      [] c = 503 -> "Service Unavailable"
      [] c = 504 -> "Gateway Timeout"
      [] c = 505 -> "HTTP Version Not Supported"
      [] OTHER -> "Unknown"

\* StatusCode::is_informational
IsInformational(c) == c >= 100 /\ c < 200

\* A class test that includes its upper end.
IsSuccessInclusive(c) == c >= 200 /\ c <= 300

\* StatusCode::is_success
IsSuccess(c) == c >= 200 /\ c < 300

\* StatusCode::is_redirection
IsRedirection(c) == c >= 300 /\ c < 400

\* StatusCode::is_client_error
IsClientError(c) == c >= 400 /\ c < 500

\* StatusCode::is_server_error
IsServerError(c) == c >= 500 /\ c < 600

\* StatusCode::is_error
IsError(c) == c >= 400 /\ c < 600

\* StatusCode::code
Code(c) == c

\* Everything a caller can read off a StatusCode
View(c) ==
    [ code |-> Code(c),
      reason_phrase |-> ReasonPhrase(c),
      is_informational |-> IsInformational(c),
      is_success |-> IsSuccess(c),
      is_redirection |-> IsRedirection(c),
      is_client_error |-> IsClientError(c),
      is_server_error |-> IsServerError(c),
      is_error |-> IsError(c) ]

NoView == [code |-> 0, reason_phrase |-> "", is_informational |-> FALSE,
           is_success |-> FALSE, is_redirection |-> FALSE,
           is_client_error |-> FALSE, is_server_error |-> FALSE,
           is_error |-> FALSE]

----------------------------------------------------------------------------
(* The status code as a state machine: the caller either calls             *)
(* StatusCode::new on a u16 or takes a named constant, then reads the      *)
(* value's accessors.                                                      *)

InitStatus ==
    /\ sIn \in [kind : {"new"}, code : U16, name : {""}]
               \cup [kind : {"const"}, code : {0}, name : ConstantNames]
    /\ sOut = Pending
    /\ sView = NoView
    /\ InitIdleHeaders /\ InitIdleValidate /\ InitIdleParse /\ InitIdleResponse /\ InitIdleQuery

New ==
    /\ sIn.kind = "new"
    /\ sOut = Pending
    /\ sOut' = StatusCodeNew(sIn.code)
    /\ UNCHANGED <<sIn, sView, hvars, vvars, pvars, rvars, qvars>>

UseConstant ==
    /\ sIn.kind = "const"
    /\ sOut = Pending
    /\ sOut' = Ok(StatusConstants[sIn.name])
    /\ UNCHANGED <<sIn, sView, hvars, vvars, pvars, rvars, qvars>>

Inspect ==
    /\ sOut.ok
    /\ sView = NoView
    /\ sView' = View(sOut.val)
    /\ UNCHANGED <<sIn, sOut, hvars, vvars, pvars, rvars, qvars>>

NextStatus == New \/ UseConstant \/ Inspect

SpecStatus == InitStatus /\ [][NextStatus]_vars

\* C6: StatusCode::new(code) succeeds iff 100 <= code <= 599; a failure is
\* InvalidStatusCode carrying the code, and after a success code() is the
\* number passed in.
C6_NewRange ==
    sIn.kind = "new" /\ sOut # Pending =>
        /\ sOut.ok <=> (100 <= sIn.code /\ sIn.code <= 599)
        /\ ~sOut.ok => sOut = InvalidStatusCode(sIn.code)
        /\ sView # NoView => sView.code = sIn.code

\* C6 witness: new(599) succeeded and code() gave 599.
C6_Witness ==
    /\ sIn.kind = "new" /\ sIn.code = 599
    /\ sOut.ok
    /\ sView.code = 599

\* C6, the boundaries, reached as well: 99 and 600 refused, 100 accepted.
C6_Witness99 == sIn.kind = "new" /\ sIn.code = 99 /\ sOut = InvalidStatusCode(99)
C6_Witness600 == sIn.kind = "new" /\ sIn.code = 600 /\ sOut = InvalidStatusCode(600)
C6_Witness100 == sIn.kind = "new" /\ sIn.code = 100 /\ sOut = Ok(100)

BoolToNat(b) == IF b THEN 1 ELSE 0

\* C7: for a status code in [100, 599] exactly one of the five class
\* predicates is true, the one of the hundreds digit, and is_error is true
\* exactly when is_client_error or is_server_error is.
C7_ClassPartition ==
    sView # NoView /\ sView.code \in 100..599 =>
        /\ BoolToNat(sView.is_informational) + BoolToNat(sView.is_success)
             + BoolToNat(sView.is_redirection) + BoolToNat(sView.is_client_error)
             + BoolToNat(sView.is_server_error) = 1
        /\ sView.is_informational <=> sView.code \div 100 = 1
        /\ sView.is_success <=> sView.code \div 100 = 2
        /\ sView.is_redirection <=> sView.code \div 100 = 3
        /\ sView.is_client_error <=> sView.code \div 100 = 4
        /\ sView.is_server_error <=> sView.code \div 100 = 5
        /\ sView.is_error <=> (sView.is_client_error \/ sView.is_server_error)

\* C7 witness: 300 (the first code of a class) is a redirection and nothing else.
C7_Witness ==
    /\ sView.code = 300
    /\ sView.is_redirection
    /\ ~sView.is_success
    /\ ~sView.is_error

ConstantCodes == {StatusConstants[n] : n \in ConstantNames}

\* C8: every named constant holds a code in [100, 599], is the value
\* StatusCode::new returns for that number and has a reason phrase other than
\* "Unknown"; every valid code that no named constant holds has the reason
\* phrase "Unknown".
C8_ReasonPhraseTable ==
    /\ sIn.kind = "const" /\ sOut # Pending =>
            /\ sOut.val \in 100..599
            /\ sOut = StatusCodeNew(sOut.val)
            /\ sView # NoView => sView.reason_phrase # "Unknown"
    /\ sIn.kind = "new" /\ sView # NoView =>
            /\ sView.code \in ConstantCodes => sView.reason_phrase # "Unknown"
            /\ sView.code \notin ConstantCodes => sView.reason_phrase = "Unknown"

\* C8 witness: the constant TOO_MANY_REQUESTS was read and has a phrase.
C8_Witness ==
    /\ sIn.kind = "const" /\ sIn.name = "TOO_MANY_REQUESTS"
    /\ sView.code = 429
    /\ sView.reason_phrase = "Too Many Requests"

\* C8, the fallback, reached as well: 418 is valid and has no row.
C8_WitnessUnknown ==
    /\ sIn.kind = "new" /\ sIn.code = 418
    /\ sView.code = 418
    /\ sView.reason_phrase = "Unknown"

----------------------------------------------------------------------------
(* request.rs, line 103: req.parse(data) is httparse::Request::parse, the  *)
(* head scanner of the httparse crate (1.x, default configuration).  It is *)
(* modelled by what it does on the byte buffer: skip leading empty lines,  *)
(* read the method token, the request target and the version, then one     *)
(* header per line until the empty line.  Positions count from 1.          *)

\* RFC 9110 tchar: the bytes of a method token and of a header name
TokenBytes ==
    {33, 35, 36, 37, 38, 39, 42, 43, 45, 46, 94, 95, 96, 124, 126}
        \cup (48..57) \cup (65..90) \cup (97..122)

\* The bytes of a request target: visible ASCII
UriBytes == 33..126

\* The bytes of a header value: tab, visible ASCII with the space, obs-text
HeaderValueBytes == {9} \cup (32..126) \cup (128..255)

\* The first position from i on whose byte is not in S (Len(d) + 1 if none)
FirstNotIn(d, i, S) ==
    LET J == {j \in i..Len(d) : d[j] \notin S}
    IN  IF J = {} THEN Len(d) + 1 ELSE CHOOSE j \in J : \A k \in J : j <= k

Partial == [st |-> "Partial"]
Error(e) == [st |-> "Error", err |-> e]
At(pos, v) == [st |-> "Ok", pos |-> pos, val |-> v]

\* skip_empty_lines
RECURSIVE SkipEmptyLines(_, _)
SkipEmptyLines(d, i) ==
    IF i > Len(d) THEN Partial
    ELSE IF d[i] = 13 THEN
        IF i + 1 > Len(d) THEN Partial
        ELSE IF d[i + 1] = 10 THEN SkipEmptyLines(d, i + 2)
        ELSE Error("invalid new line")
    ELSE IF d[i] = 10 THEN SkipEmptyLines(d, i + 1)
    ELSE At(i, <<>>)

\* parse_token: a non-empty run of token bytes ended by a space
ParseToken(d, i) ==
    LET j == FirstNotIn(d, i, TokenBytes)
    IN  IF i > Len(d) THEN Partial
        ELSE IF d[i] \notin TokenBytes THEN Error("invalid token")
        ELSE IF j > Len(d) THEN Partial
        ELSE IF d[j] # 32 THEN Error("invalid token")
        ELSE At(j + 1, SubSeq(d, i, j - 1))

\* parse_uri: a non-empty run of request-target bytes ended by a space
ParseUri(d, i) ==
    LET j == FirstNotIn(d, i, UriBytes)
    IN  IF j > Len(d) THEN Partial
        ELSE IF d[j] # 32 \/ j = i THEN Error("invalid token")
        ELSE At(j + 1, SubSeq(d, i, j - 1))

HTTP_1_ == <<72, 84, 84, 80, 47, 49, 46>>

\* A parse_version that refuses a version that has not arrived in full.
ParseVersionNoPartial(d, i) ==
    IF Len(d) - i + 1 >= 8 /\ SubSeq(d, i, i + 6) = HTTP_1_ /\ d[i + 7] \in {48, 49}
    THEN At(i + 8, d[i + 7] - 48)
    ELSE Error("invalid HTTP version")

\* parse_version: exactly "HTTP/1.0" or "HTTP/1.1"; with fewer than eight
\* bytes left, Partial as long as they are a prefix of "HTTP/1."
ParseVersion(d, i) ==
    LET rest == Len(d) - i + 1
    IN  IF rest >= 8 THEN
            IF SubSeq(d, i, i + 6) = HTTP_1_ /\ d[i + 7] \in {48, 49}
            THEN At(i + 8, d[i + 7] - 48)
            ELSE Error("invalid HTTP version")
        ELSE IF \E k \in 1..rest : k <= 7 /\ d[i + k - 1] # HTTP_1_[k]
             THEN Error("invalid HTTP version")
             ELSE Partial

\* newline!: CR LF or a bare LF
ParseNewline(d, i) ==
    IF i > Len(d) THEN Partial
    ELSE IF d[i] = 13 THEN
        IF i + 1 > Len(d) THEN Partial
        ELSE IF d[i + 1] = 10 THEN At(i + 2, <<>>)
        ELSE Error("invalid new line")
    ELSE IF d[i] = 10 THEN At(i + 1, <<>>)
    ELSE Error("invalid new line")

\* The value without its trailing spaces and tabs
RECURSIVE TrimTrailingBlanks(_)
TrimTrailingBlanks(v) ==
    IF v # <<>> /\ v[Len(v)] \in {32, 9}
    THEN TrimTrailingBlanks(SubSeq(v, 1, Len(v) - 1))
    ELSE v

\* The size of the header array parse_request hands to httparse
MaxHeaders == 64

\* One turn of the loop of parse_headers_iter at position i: the end of the
\* head, a header and the position after its line, Partial, or an error;
\* full tells that no slot of the header array is free
ParseHeaderLine(d, i, full) ==
    IF i > Len(d) THEN Partial
    ELSE IF d[i] = 13 THEN
        IF i + 1 > Len(d) THEN Partial
        ELSE IF d[i + 1] = 10 THEN [st |-> "End", pos |-> i + 2]
        ELSE Error("invalid new line")
    ELSE IF d[i] = 10 THEN [st |-> "End", pos |-> i + 1]
    ELSE IF d[i] \notin TokenBytes THEN Error("invalid header name")
    ELSE IF full THEN Error("too many headers")
    ELSE
        LET c == FirstNotIn(d, i, TokenBytes)
            v == FirstNotIn(d, c + 1, {32, 9})
            e == FirstNotIn(d, v, HeaderValueBytes)
            h == [name |-> SubSeq(d, i, c - 1),
                  value |-> TrimTrailingBlanks(SubSeq(d, v, e - 1))]
        IN  IF c > Len(d) THEN Partial
            ELSE IF d[c] # 58 THEN Error("invalid header name")
            ELSE IF v > Len(d) \/ e > Len(d) THEN Partial
            ELSE IF d[e] = 13 THEN
                IF e + 1 > Len(d) THEN Partial
                ELSE IF d[e + 1] = 10 THEN [st |-> "Header", pos |-> e + 2, val |-> h]
                ELSE Error("invalid header value")
            ELSE IF d[e] = 10 THEN [st |-> "Header", pos |-> e + 1, val |-> h]
            ELSE Error("invalid header value")

\* A parse_headers_iter that drops the headers that find no free slot.
RECURSIVE ParseHeadersTruncating(_, _, _)
ParseHeadersTruncating(d, i, hs) ==
    LET r == ParseHeaderLine(d, i, FALSE)
    IN  IF r.st = "Header" /\ Len(hs) >= MaxHeaders
        THEN ParseHeadersTruncating(d, r.pos, hs)
        ELSE IF r.st = "Header"
        THEN ParseHeadersTruncating(d, r.pos, Append(hs, r.val))
        ELSE IF r.st = "End" THEN At(r.pos, hs)
        ELSE r

\* parse_headers_iter: one header per line into the next free slot, up to
\* the empty line; hs are the headers read so far
RECURSIVE ParseHeaders(_, _, _)
ParseHeaders(d, i, hs) ==
    LET r == ParseHeaderLine(d, i, Len(hs) >= MaxHeaders)
    IN  IF r.st = "Header" THEN ParseHeaders(d, r.pos, Append(hs, r.val))
        ELSE IF r.st = "End" THEN At(r.pos, hs)
        ELSE r

\* httparse::Request::parse: Complete with the head length and the fields of
\* the request, Partial, or an error
HttparseParse(d) ==
    LET s == SkipEmptyLines(d, 1) IN
    IF s.st # "Ok" THEN s ELSE
    LET m == ParseToken(d, s.pos) IN
    IF m.st # "Ok" THEN m ELSE
    LET u == ParseUri(d, m.pos) IN
    IF u.st # "Ok" THEN u ELSE
    LET v == ParseVersion(d, u.pos) IN
    IF v.st # "Ok" THEN v ELSE
    LET n == ParseNewline(d, v.pos) IN
    IF n.st # "Ok" THEN n ELSE
    LET h == ParseHeaders(d, n.pos, <<>>) IN
    IF h.st # "Ok" THEN h ELSE
    [st |-> "Complete", len |-> h.pos - 1, method |-> m.val, path |-> u.val,
     version |-> v.val, headers |-> h.val]

----------------------------------------------------------------------------
(* request.rs: Method and parse_request.                                   *)

InvalidMethod(s) == [ok |-> FALSE, err |-> "InvalidMethod", arg |-> s]
ParseError(msg) == [ok |-> FALSE, err |-> "ParseError", arg |-> msg]
\* RequestError::HeaderError, made from a HeaderError by `?`
HeaderError(e) == [ok |-> FALSE, err |-> "HeaderError", arg |-> e]

\* char::to_uppercase: exact on ASCII; of the other characters those whose
\* upper case is made of ASCII letters only are listed (sharp s, dotless i,
\* long s and the Latin ligatures), every other one stays outside ASCII and
\* is left as it is
CharToUppercase(c) ==
    IF c \in 97..122 THEN <<c - 32>>
    ELSE IF c = 223 THEN <<83, 83>>
    ELSE IF c = 305 THEN <<73>>
    ELSE IF c = 383 THEN <<83>>
    ELSE IF c = 64256 THEN <<70, 70>>
    ELSE IF c = 64257 THEN <<70, 73>>
    ELSE IF c = 64258 THEN <<70, 76>>
    ELSE IF c = 64259 THEN <<70, 70, 73>>
    ELSE IF c = 64260 THEN <<70, 70, 76>>
    ELSE IF c \in {64261, 64262} THEN <<83, 84>>
    ELSE <<c>>

\* str::to_uppercase
RECURSIVE ToUppercase(_)
ToUppercase(s) ==
    IF s = <<>> THEN <<>> ELSE CharToUppercase(Head(s)) \o ToUppercase(Tail(s))

\* The nine verbs of enum Method, with the text each is matched against
Verbs ==
    { [method |-> "GET", text |-> <<71, 69, 84>>],
      [method |-> "POST", text |-> <<80, 79, 83, 84>>],
      [method |-> "PUT", text |-> <<80, 85, 84>>],
      [method |-> "DELETE", text |-> <<68, 69, 76, 69, 84, 69>>],
      [method |-> "HEAD", text |-> <<72, 69, 65, 68>>],
      [method |-> "OPTIONS", text |-> <<79, 80, 84, 73, 79, 78, 83>>],
      [method |-> "PATCH", text |-> <<80, 65, 84, 67, 72>>],
      [method |-> "CONNECT", text |-> <<67, 79, 78, 78, 69, 67, 84>>],
      [method |-> "TRACE", text |-> <<84, 82, 65, 67, 69>>] }

\* A from_str that compares the token as it is.
MethodFromStrCaseSensitive(s) ==
    IF \E v \in Verbs : v.text = s
    THEN Ok((CHOOSE v \in Verbs : v.text = s).method)
    ELSE InvalidMethod(s)

\* Method::from_str
MethodFromStr(s) ==
    LET u == ToUppercase(s)
    IN  IF \E v \in Verbs : v.text = u
        THEN Ok((CHOOSE v \in Verbs : v.text = u).method)
        ELSE InvalidMethod(s)

Cont == 128..191

\* The number of bytes of the UTF-8 sequence that starts bs (0: none is valid)
Utf8Width(bs) ==
    LET n == Len(bs)
        b1 == bs[1]
    IN  IF b1 < 128 THEN 1
        ELSE IF b1 \in 194..223 /\ n >= 2 /\ bs[2] \in Cont THEN 2
        ELSE IF /\ b1 \in 224..239 /\ n >= 3 /\ bs[3] \in Cont
                /\ bs[2] \in (CASE b1 = 224 -> 160..191
                                [] b1 = 237 -> 128..159
                                [] OTHER -> Cont) THEN 3
        ELSE IF /\ b1 \in 240..244 /\ n >= 4 /\ bs[3] \in Cont /\ bs[4] \in Cont
                /\ bs[2] \in (CASE b1 = 240 -> 144..191
                                [] b1 = 244 -> 128..143
                                [] OTHER -> Cont) THEN 4
        ELSE 0

\* The scalar value of a valid sequence of w bytes at the start of bs
Utf8Scalar(bs, w) ==
    CASE w = 1 -> bs[1]
      [] w = 2 -> (bs[1] - 192) * 64 + (bs[2] - 128)
      [] w = 3 -> (bs[1] - 224) * 4096 + (bs[2] - 128) * 64 + (bs[3] - 128)
      [] w = 4 -> (bs[1] - 240) * 262144 + (bs[2] - 128) * 4096
                    + (bs[3] - 128) * 64 + (bs[4] - 128)

\* std::str::from_utf8: the characters of the bytes, or an error
RECURSIVE FromUtf8(_)
FromUtf8(bs) ==
    IF bs = <<>> THEN Ok(<<>>)
    ELSE LET w == Utf8Width(bs)
         IN  IF w = 0 THEN [ok |-> FALSE, err |-> "Utf8Error"]
             ELSE LET rest == FromUtf8(SubSeq(bs, w + 1, Len(bs)))
                  IN  IF rest.ok THEN Ok(<<Utf8Scalar(bs, w)>> \o rest.val)
                      ELSE rest

\* A loop that keeps the first value of a name that comes again.
RECURSIVE IngestHeadersFirstWins(_, _, _)
IngestHeadersFirstWins(hs, i, m) ==
    IF i > Len(hs) THEN Ok(m)
    ELSE LET value == FromUtf8(hs[i].value)
         IN  IF ~value.ok THEN ParseError("Invalid header value encoding")
             ELSE LET r == HeadersInsert(m, hs[i].name, value.val)
                  IN  IF ~r.ret.ok THEN HeaderError(r.ret)
                      ELSE IF hs[i].name \in DOMAIN m
                      THEN IngestHeadersFirstWins(hs, i + 1, m)
                      ELSE IngestHeadersFirstWins(hs, i + 1, r.map)

\* A loop that leaves out the header it cannot ingest and goes on.
RECURSIVE IngestHeadersSkipping(_, _, _)
IngestHeadersSkipping(hs, i, m) ==
    IF i > Len(hs) THEN Ok(m)
    ELSE LET value == FromUtf8(hs[i].value)
         IN  IF ~value.ok THEN IngestHeadersSkipping(hs, i + 1, m)
             ELSE LET r == HeadersInsert(m, hs[i].name, value.val)
                  IN  IF ~r.ret.ok THEN IngestHeadersSkipping(hs, i + 1, m)
                      ELSE IngestHeadersSkipping(hs, i + 1, r.map)

\* The loop of parse_request over req.headers, from header i on, into m
RECURSIVE IngestHeaders(_, _, _)
IngestHeaders(hs, i, m) ==
    IF i > Len(hs) THEN Ok(m)
    ELSE LET value == FromUtf8(hs[i].value)
         IN  IF ~value.ok THEN ParseError("Invalid header value encoding")
             ELSE LET r == HeadersInsert(m, hs[i].name, value.val)
                  IN  IF ~r.ret.ok THEN HeaderError(r.ret)
                      ELSE IngestHeaders(hs, i + 1, r.map)

\* A collapse that tests for the wrong minor version.
CollapseVersionSwapped(version) == <<1, IF version = 0 THEN 1 ELSE 0>>

\* request.rs line 119: the version of the Request
CollapseVersion(version) == <<1, IF version = 1 THEN 1 ELSE 0>>

\* A body that starts one byte early.
RequestBodyOffByOne(data, parsed_len) ==
    IF parsed_len < Len(data)
    THEN SubSeq(data, parsed_len, Len(data))
    ELSE <<>>

\* request.rs lines 128-132: the bytes after the head
RequestBody(data, parsed_len) ==
    IF parsed_len < Len(data)
    THEN SubSeq(data, parsed_len + 1, Len(data))
    ELSE <<>>

\* parse_request
ParseRequest(data) ==
    LET req == HttparseParse(data) IN
    IF req.st = "Partial" THEN ParseError("Incomplete request")
    ELSE IF req.st = "Error" THEN ParseError(req.err)
    ELSE
    LET method == MethodFromStr(req.method) IN
    IF ~method.ok THEN method
    ELSE
    LET http_headers == IngestHeaders(req.headers, 1, HeadersNew) IN
    IF ~http_headers.ok THEN http_headers
    ELSE
    Ok([method |-> method.val,
        uri |-> req.path,
        version |-> CollapseVersion(req.version),
        headers |-> http_headers.val,
        body |-> RequestBody(data, req.len)])

----------------------------------------------------------------------------
(* The parser as a state machine: a buffer arrives, parse_request is       *)
(* called on it once.  A buffer is a request line, some header lines, the  *)
(* empty line and a body, cut after any number of bytes; the parts it was  *)
(* built from are kept next to it.                                         *)

CRLF == <<13, 10>>

RECURSIVE Concat(_)
Concat(ss) == IF ss = <<>> THEN <<>> ELSE Head(ss) \o Concat(Tail(ss))

\* The bytes of a request with these parts
Wire(method, uri, version, lines, body) ==
    method \o <<32>> \o uri \o <<32>> \o version \o CRLF
        \o Concat([i \in 1..Len(lines) |-> lines[i] \o CRLF]) \o CRLF \o body

Input(method, uri, version, lines, body, cut) ==
    [ data |-> SubSeq(Wire(method, uri, version, lines, body), 1, cut),
      method |-> method, uri |-> uri, version |-> version,
      lines |-> lines, body |-> body, cut |-> cut ]

\* Every upper/lower-case spelling of a word of upper-case letters
Spellings(text) ==
    { [i \in 1..Len(text) |-> IF i \in L THEN text[i] + 32 ELSE text[i]] :
        L \in SUBSET (1..Len(text)) }

VerbSpellings == UNION {Spellings(v.text) : v \in Verbs}

\* "FOO", "foo", "GE", "GETS", "G3T", "TRACK", "G-T"
OtherTokens ==
    { <<70, 79, 79>>, <<102, 111, 111>>, <<71, 69>>, <<71, 69, 84, 83>>, <<71, 51, 84>>, <<84, 82, 65, 67, 75>>, <<71, 45, 84>> }

HTTP_1_0 == <<72, 84, 84, 80, 47, 49, 46, 48>>
HTTP_1_1 == <<72, 84, 84, 80, 47, 49, 46, 49>>
HTTP_1_2 == <<72, 84, 84, 80, 47, 49, 46, 50>>
HTTP_2_0 == <<72, 84, 84, 80, 47, 50, 46, 48>>

\* "Host: a", "Host: b", "host: a", "X:" with the lone byte 0x80 (not UTF-8),
\* "X: " with the bytes C2 85 (UTF-8 of the control character U+0085)
HeaderLines ==
    { <<72, 111, 115, 116, 58, 32, 97>>,
      <<72, 111, 115, 116, 58, 32, 98>>,
      <<104, 111, 115, 116, 58, 32, 97>>,
      <<88, 58, 128>>,
      <<88, 58, 32, 194, 133>> }

SeqsUpTo(S, n) == UNION {[1..k -> S] : k \in 0..n}

\* 'B', CR
BodyBytes == {66, 13}

InitParse ==
    /\ \E method \in {<<71, 69, 84>>, <<112, 111, 115, 116>>, <<70, 79, 79>>},
          uri \in {<<47>>},
          version \in {HTTP_1_0, HTTP_1_1, HTTP_1_2, HTTP_2_0},
          lines \in SeqsUpTo(HeaderLines, MaxHeaderLines),
          body \in StringsUpTo(BodyBytes, MaxBodyLen) :
            \E cut \in 0..Len(Wire(method, uri, version, lines, body)) :
                pIn = Input(method, uri, version, lines, body, cut)
    /\ pOut = Pending
    /\ pCalls = 0
    /\ InitIdleHeaders /\ InitIdleValidate /\ InitIdleStatus /\ InitIdleResponse /\ InitIdleQuery

\* Whole requests whose method token is any spelling of a verb or another token
InitMethod ==
    /\ \E method \in VerbSpellings \cup OtherTokens,
          version \in {HTTP_1_0, HTTP_1_1},
          lines \in SeqsUpTo(HeaderLines, 1) :
            LET w == Wire(method, <<47, 120>>, version, lines, <<>>)
            IN  pIn = Input(method, <<47, 120>>, version, lines, <<>>, Len(w))
    /\ pOut = Pending
    /\ pCalls = 0
    /\ InitIdleHeaders /\ InitIdleValidate /\ InitIdleStatus /\ InitIdleResponse /\ InitIdleQuery

Parse ==
    /\ pOut = Pending
    /\ pOut' = ParseRequest(pIn.data)
    /\ pCalls' = IF pOut'.ok THEN pCalls ELSE pCalls + 1
    /\ UNCHANGED <<pIn, hvars, vvars, svars, rvars, qvars>>

NextParse == Parse

SpecParse == InitParse /\ [][NextParse]_vars
SpecMethod == InitMethod /\ [][NextParse]_vars

\* The token is a spelling of the verb, letter case aside
SpellsVerb(tok, v) ==
    /\ Len(tok) = Len(v.text)
    /\ \A i \in 1..Len(tok) : tok[i] = v.text[i] \/ tok[i] = v.text[i] + 32

\* The head of the buffer is whole and well formed (step 1 of the parser passed)
HeadParsed == pOut # Pending /\ HttparseParse(pIn.data).st = "Complete"

\* C9: once the head is scanned, a method token that spells one of the nine
\* verbs in any letter case is never refused as a method and gives that verb
\* in the Request, and every other token makes parse_request fail with
\* InvalidMethod carrying the token as it stood in the buffer.
C9_MethodMatching ==
    HeadParsed =>
        /\ \A v \in Verbs : SpellsVerb(pIn.method, v) =>
                /\ ~(~pOut.ok /\ pOut.err = "InvalidMethod")
                /\ pOut.ok => pOut.val.method = v.method
        /\ (\A v \in Verbs : ~SpellsVerb(pIn.method, v)) =>
                pOut = InvalidMethod(pIn.method)
        /\ pOut.ok => \E v \in Verbs : pOut.val.method = v.method

\* C9 witness: "dElEtE" gave DELETE.
C9_Witness ==
    /\ pIn.method = <<100, 69, 108, 69, 116, 69>>
    /\ pOut.ok
    /\ pOut.val.method = "DELETE"

\* C9, the failure side, reached as well: "FOO" is refused as it stands, also
\* when a header line of the same head is not UTF-8.
C9_WitnessFoo ==
    /\ pIn.method = <<70, 79, 79>>
    /\ pIn.lines # <<>>
    /\ pOut = InvalidMethod(<<70, 79, 79>>)

\* C10: every Request parse_request returns has version (1, 0) or (1, 1), and
\* (1, 1) exactly when the version in the request line is HTTP/1.1.
C10_VersionCollapsed ==
    pOut # Pending /\ pOut.ok =>
        /\ pOut.val.version \in {<<1, 0>>, <<1, 1>>}
        /\ pOut.val.version[2] = 1 <=> pIn.version = HTTP_1_1
        /\ pOut.val.version[2] = 1 <=> HttparseParse(pIn.data).version = 1

\* C10 witness: a request with HTTP/1.0 in its request line gave (1, 0).
C10_Witness ==
    /\ pIn.version = HTTP_1_0
    /\ pOut.ok
    /\ pOut.val.version = <<1, 0>>

\* C10, the other outcome, reached as well.
C10_Witness11 ==
    /\ pIn.version = HTTP_1_1
    /\ pOut.ok
    /\ pOut.val.version = <<1, 1>>

----------------------------------------------------------------------------
(* Requests built from header fields instead of raw lines.                 *)

\* The line "name: value" of a header field
FieldLine(h) == h.name \o <<58, 32>> \o h.value

FieldLines(hs) == [i \in 1..Len(hs) |-> FieldLine(hs[i])]

\* A whole or cut request whose header lines are those of the fields hs
FieldInput(method, uri, version, hs, body, cut) ==
    [ data |-> SubSeq(Wire(method, uri, version, FieldLines(hs), body), 1, cut),
      method |-> method, uri |-> uri, version |-> version,
      lines |-> hs, body |-> body, cut |-> cut ]

\* The length of the head of the request the buffer was cut from
HeadLen ==
    Len(Wire(pIn.method, pIn.uri, pIn.version, FieldLines(pIn.lines), <<>>))

ContentLength0 == [name |-> <<67, 111, 110, 116, 101, 110, 116, 45, 76, 101, 110, 103, 116, 104>>, value |-> <<48>>]
ContentLength5 == [name |-> <<67, 111, 110, 116, 101, 110, 116, 45, 76, 101, 110, 103, 116, 104>>, value |-> <<53>>]
TransferEncodingChunked ==
    [name |-> <<84, 114, 97, 110, 115, 102, 101, 114, 45, 69, 110, 99, 111, 100, 105, 110, 103>>, value |-> <<99, 104, 117, 110, 107, 101, 100>>]

\* Whole heads followed by none, some or all of the bytes of a body, with or
\* without a header that announces a body length
InitBody ==
    /\ \E method \in {<<71, 69, 84>>, <<112, 111, 115, 116>>},
          version \in {HTTP_1_0, HTTP_1_1},
          hs \in SeqsUpTo({ContentLength0, ContentLength5, TransferEncodingChunked}, 1),
          body \in StringsUpTo(BodyBytes, MaxBodyLen) :
            LET head == Len(Wire(method, <<47>>, version, FieldLines(hs), <<>>))
            IN  \E cut \in head..(head + Len(body)) :
                    pIn = FieldInput(method, <<47>>, version, hs, body, cut)
    /\ pOut = Pending
    /\ pCalls = 0
    /\ InitIdleHeaders /\ InitIdleValidate /\ InitIdleStatus /\ InitIdleResponse /\ InitIdleQuery

SpecBody == InitBody /\ [][NextParse]_vars

\* C11: on a successful parse the body is the bytes of the buffer after the
\* head, whatever Content-Length or Transfer-Encoding says, and is empty when
\* the buffer ends with the head; parsing the buffer with more bytes appended
\* gives the same Request with those bytes added at the end of the body.
C11_BodyIsRest ==
    pOut # Pending =>
        /\ pOut.ok
        /\ pOut.val.body = SubSeq(pIn.data, HeadLen + 1, Len(pIn.data))
        /\ Len(pIn.data) = HeadLen => pOut.val.body = <<>>
        /\ \A x \in StringsUpTo(BodyBytes, MaxBodyLen) :
                ParseRequest(pIn.data \o x)
                    = Ok([pOut.val EXCEPT !.body = pOut.val.body \o x])

\* C11 witness: a request with "Content-Length: 0" and one more byte gave a
\* body of that byte.
C11_Witness ==
    /\ pIn.lines = <<ContentLength0>>
    /\ pOut.ok
    /\ pOut.val.body = <<66>>

\* C11, the empty body, reached as well: "Content-Length: 5" and no byte
\* after the head.
C11_WitnessEmpty ==
    /\ pIn.lines = <<ContentLength5>>
    /\ pIn.cut = HeadLen
    /\ pOut.ok
    /\ pOut.val.body = <<>>

----------------------------------------------------------------------------
(* The caller's retry loop: the bytes of a request arrive in pieces; after *)
(* a call that failed for want of bytes the caller appends what arrived    *)
(* next and calls parse_request again on the whole buffer.                 *)

HostA == [name |-> <<72, 111, 115, 116>>, value |-> <<97>>]

InitRetry ==
    /\ \E version \in {HTTP_1_0, HTTP_1_1},
          hs \in SeqsUpTo({HostA, ContentLength0}, MaxHeaderLines),
          body \in StringsUpTo(BodyBytes, MaxBodyLen) :
            \E cut \in 0..Len(Wire(<<71, 69, 84>>, <<47>>, version, FieldLines(hs), body)) :
                pIn = FieldInput(<<71, 69, 84>>, <<47>>, version, hs, body, cut)
    /\ pOut = Pending
    /\ pCalls = 0
    /\ InitIdleHeaders /\ InitIdleValidate /\ InitIdleStatus /\ InitIdleResponse /\ InitIdleQuery

Receive ==
    /\ pOut = ParseError("Incomplete request")
    /\ pCalls <= MaxRetries
    /\ LET whole == Wire(pIn.method, pIn.uri, pIn.version,
                         FieldLines(pIn.lines), pIn.body)
       IN  \E cut \in (pIn.cut + 1)..Len(whole) :
                pIn' = [pIn EXCEPT !.data = SubSeq(whole, 1, cut), !.cut = cut]
    /\ pOut' = Pending
    /\ UNCHANGED <<pCalls, hvars, vvars, svars, rvars, qvars>>

NextRetry == Parse \/ Receive

SpecRetry == InitRetry /\ [][NextRetry]_vars

\* The collection a sequence of valid header fields leaves: per name, the
\* value of the last field with that name
ExpectedHeaders(hs) ==
    [n \in {hs[i].name : i \in 1..Len(hs)} |->
        hs[CHOOSE i \in 1..Len(hs) :
                /\ hs[i].name = n
                /\ \A j \in (i + 1)..Len(hs) : hs[j].name # n].value]

\* The Request of a GET request whose head has arrived
ExpectedRequest ==
    [ method |-> "GET",
      uri |-> pIn.uri,
      version |-> IF pIn.version = HTTP_1_1 THEN <<1, 1>> ELSE <<1, 0>>,
      headers |-> ExpectedHeaders(pIn.lines),
      body |-> SubSeq(pIn.body, 1, pIn.cut - HeadLen) ]

\* C12: on a strict prefix of a well-formed head parse_request fails with the
\* incomplete-head error; on the buffer that holds the whole head it returns
\* the Request of that buffer, however many calls have failed before.
C12_IncompleteThenRetry ==
    pOut # Pending =>
        /\ pIn.cut < HeadLen => pOut = ParseError("Incomplete request")
        /\ pIn.cut >= HeadLen => pOut = Ok(ExpectedRequest)

\* C12 witness: two calls failed on prefixes of the head, then the call on
\* the accumulated buffer returned the Request.
C12_Witness ==
    /\ pCalls = 2
    /\ pIn.lines = <<HostA>>
    /\ pOut = Ok(ExpectedRequest)

----------------------------------------------------------------------------
(* Requests with many header lines, around the size of the header array.   *)

\* The i-th of a run of header fields with names that are all different:
\* "aa: v", "ba: v", ..., "za: v", "ab: v", ...
NthField(i) == [name |-> <<97 + (i % 26), 97 + (i \div 26)>>, value |-> <<118>>]

InitManyHeaders ==
    /\ \E n \in 0..(MaxHeaders + MaxExtraHeaders),
          version \in {HTTP_1_0, HTTP_1_1},
          body \in {<<>>, <<66>>} :
            LET hs == [i \in 1..n |-> NthField(i - 1)]
                w == Wire(<<71, 69, 84>>, <<47>>, version, FieldLines(hs), body)
            IN  pIn = FieldInput(<<71, 69, 84>>, <<47>>, version, hs, body, Len(w))
    /\ pOut = Pending
    /\ pCalls = 0
    /\ InitIdleHeaders /\ InitIdleValidate /\ InitIdleStatus /\ InitIdleResponse /\ InitIdleQuery

SpecManyHeaders == InitManyHeaders /\ [][NextParse]_vars

\* C13: a head with more than 64 header lines makes parse_request fail, so no
\* Request holds a part of its headers; a head with at most 64 header lines
\* gives the Request with every one of them.
C13_HeaderLimit ==
    pOut # Pending =>
        /\ Len(pIn.lines) > 64 => ~pOut.ok
        /\ Len(pIn.lines) <= 64 =>
                /\ pOut = Ok(ExpectedRequest)
                /\ Cardinality(DOMAIN pOut.val.headers) = Len(pIn.lines)

\* C13 witness: 65 header lines were refused.
C13_Witness ==
    /\ Len(pIn.lines) = 65
    /\ pOut = ParseError("too many headers")

\* C13, the other side of the limit, reached as well: 64 header lines, 64
\* entries.
C13_Witness64 ==
    /\ Len(pIn.lines) = 64
    /\ pOut.ok
    /\ Cardinality(DOMAIN pOut.val.headers) = 64

----------------------------------------------------------------------------
(* Whole requests some of whose header lines cannot be ingested.           *)

\* "Host: b", "host: a"
HostB == [name |-> <<72, 111, 115, 116>>, value |-> <<98>>]
HostLower == [name |-> <<104, 111, 115, 116>>, value |-> <<97>>]
\* "X: " and the byte 0x80, which starts no UTF-8 sequence
XContinuationByte == [name |-> <<88>>, value |-> <<128>>]
\* "X: " and 0xC3 followed by 'a': a two-byte sequence cut short
XCutSequence == [name |-> <<88>>, value |-> <<195, 97>>]
\* "X: " and 0xC2 0x85, the UTF-8 form of the control character U+0085
XNextLine == [name |-> <<88>>, value |-> <<194, 133>>]
\* "Y: a" and 0xC2 0x9F, the UTF-8 form of the control character U+009F
YUnitSeparator == [name |-> <<89>>, value |-> <<97, 194, 159>>]

GoodFields == {HostA, HostB, HostLower}
NotUtf8Fields == {XContinuationByte, XCutSequence}
ControlFields == {XNextLine, YUnitSeparator}

InitIngest ==
    /\ \E version \in {HTTP_1_0, HTTP_1_1},
          hs \in SeqsUpTo(GoodFields \cup NotUtf8Fields \cup ControlFields,
                          MaxHeaderLines + 1),
          body \in {<<>>, <<66>>} :
            LET w == Wire(<<71, 69, 84>>, <<47>>, version, FieldLines(hs), body)
            IN  pIn = FieldInput(<<71, 69, 84>>, <<47>>, version, hs, body, Len(w))
    /\ pOut = Pending
    /\ pCalls = 0
    /\ InitIdleHeaders /\ InitIdleValidate /\ InitIdleStatus /\ InitIdleResponse /\ InitIdleQuery

SpecIngest == InitIngest /\ [][NextParse]_vars

\* The header lines of the request that cannot be ingested
BadLines == {i \in 1..Len(pIn.lines) : pIn.lines[i] \notin GoodFields}

FirstBadLine == CHOOSE i \in BadLines : \A j \in BadLines : i <= j

EncodingError == ParseError("Invalid header value encoding")

C14_WitnessControl ==
    /\ pIn.lines = <<XNextLine, HostA>>
    /\ pOut = HeaderError(InvalidValue)

\* C14, both kinds of line in one head: the first one decided.
C14_WitnessBoth ==
    /\ pIn.lines = <<XNextLine, XContinuationByte>>
    /\ pOut = HeaderError(InvalidValue)

----------------------------------------------------------------------------
(* response.rs: Response, ResponseBuilder and to_bytes.  The StatusCode of *)
(* a Response is the one of status.rs above.                               *)

\* Response::new
ResponseNew(status, hdrs, body) ==
    [status |-> status, version |-> <<1, 1>>, headers |-> hdrs, body |-> body]

\* ResponseBuilder::new
ResponseBuilderNew ==
    [status |-> StatusConstants.OK, headers |-> HeadersNew, body |-> None]

\* A status() that forgets the body set before it.
BuilderStatusForgettingBody(b, status) == [b EXCEPT !.status = status, !.body = None]

\* ResponseBuilder::status
BuilderStatus(b, status) == [b EXCEPT !.status = status]

\* A header() that empties the collection when the insertion fails.
BuilderHeaderResetting(b, name, value) ==
    LET r == HeadersInsert(b.headers, name, value)
    IN  [b EXCEPT !.headers = IF r.ret.ok THEN r.map ELSE HeadersNew]

\* ResponseBuilder::header: the Result of the insertion is dropped
BuilderHeader(b, name, value) ==
    [b EXCEPT !.headers = HeadersInsert(b.headers, name, value).map]

\* ResponseBuilder::body
BuilderBody(b, body) == [b EXCEPT !.body = Some(body)]

\* A build() that keeps the version of a default-constructed pair.
BuilderBuildVersionZero(b) ==
    [ResponseNew(b.status, b.headers, IF b.body.some THEN b.body.val ELSE <<>>)
        EXCEPT !.version = <<0, 0>>]

\* ResponseBuilder::build
BuilderBuild(b) ==
    ResponseNew(b.status, b.headers, IF b.body.some THEN b.body.val ELSE <<>>)

\* An encoding that writes every scalar value below 256 as one byte.
Utf8EncodeCharLatin1(c) ==
    IF c < 256 THEN <<c>>
    ELSE IF c < 2048 THEN <<192 + (c \div 64), 128 + (c % 64)>>
    ELSE IF c < 65536
        THEN <<224 + (c \div 4096), 128 + ((c \div 64) % 64), 128 + (c % 64)>>
    ELSE <<240 + (c \div 262144), 128 + ((c \div 4096) % 64),
           128 + ((c \div 64) % 64), 128 + (c % 64)>>

\* The UTF-8 bytes of a scalar value, as write! puts a char of a String
Utf8EncodeChar(c) ==
    IF c < 128 THEN <<c>>
    ELSE IF c < 2048 THEN <<192 + (c \div 64), 128 + (c % 64)>>
    ELSE IF c < 65536
        THEN <<224 + (c \div 4096), 128 + ((c \div 64) % 64), 128 + (c % 64)>>
    ELSE <<240 + (c \div 262144), 128 + ((c \div 4096) % 64),
           128 + ((c \div 64) % 64), 128 + (c % 64)>>

Utf8Encode(str) == Concat([i \in 1..Len(str) |-> Utf8EncodeChar(str[i])])

\* {} of an unsigned integer: its decimal digits
RECURSIVE Decimal(_)
Decimal(n) ==
    IF n < 10 THEN <<48 + n>> ELSE Decimal(n \div 10) \o <<48 + (n % 10)>>

\* The bytes of the reason phrases
PhraseBytes ==
    "Continue" :> <<67, 111, 110, 116, 105, 110, 117, 101>>
    @@ "Switching Protocols" :> <<83, 119, 105, 116, 99, 104, 105, 110, 103, 32, 80, 114, 111, 116, 111, 99, 111, 108, 115>>
    @@ "Processing" :> <<80, 114, 111, 99, 101, 115, 115, 105, 110, 103>>
    @@ "Early Hints" :> <<69, 97, 114, 108, 121, 32, 72, 105, 110, 116, 115>>
    @@ "OK" :> <<79, 75>>
    @@ "Created" :> <<67, 114, 101, 97, 116, 101, 100>>
    @@ "Accepted" :> <<65, 99, 99, 101, 112, 116, 101, 100>>
    @@ "Non-Authoritative Information" :> <<78, 111, 110, 45, 65, 117, 116, 104, 111, 114, 105, 116, 97, 116, 105, 118, 101, 32, 73, 110, 102, 111, 114, 109, 97, 116, 105, 111, 110>>
    @@ "No Content" :> <<78, 111, 32, 67, 111, 110, 116, 101, 110, 116>>
    @@ "Reset Content" :> <<82, 101, 115, 101, 116, 32, 67, 111, 110, 116, 101, 110, 116>>
    @@ "Partial Content" :> <<80, 97, 114, 116, 105, 97, 108, 32, 67, 111, 110, 116, 101, 110, 116>>
    @@ "Multiple Choices" :> <<77, 117, 108, 116, 105, 112, 108, 101, 32, 67, 104, 111, 105, 99, 101, 115>>
    @@ "Moved Permanently" :> <<77, 111, 118, 101, 100, 32, 80, 101, 114, 109, 97, 110, 101, 110, 116, 108, 121>>
    @@ "Found" :> <<70, 111, 117, 110, 100>>
    @@ "See Other" :> <<83, 101, 101, 32, 79, 116, 104, 101, 114>>
    @@ "Not Modified" :> <<78, 111, 116, 32, 77, 111, 100, 105, 102, 105, 101, 100>>
    @@ "Temporary Redirect" :> <<84, 101, 109, 112, 111, 114, 97, 114, 121, 32, 82, 101, 100, 105, 114, 101, 99, 116>>
    @@ "Permanent Redirect" :> <<80, 101, 114, 109, 97, 110, 101, 110, 116, 32, 82, 101, 100, 105, 114, 101, 99, 116>>
    @@ "Bad Request" :> <<66, 97, 100, 32, 82, 101, 113, 117, 101, 115, 116>>
    @@ "Unauthorized" :> <<85, 110, 97, 117, 116, 104, 111, 114, 105, 122, 101, 100>>
    @@ "Payment Required" :> <<80, 97, 121, 109, 101, 110, 116, 32, 82, 101, 113, 117, 105, 114, 101, 100>>
    @@ "Forbidden" :> <<70, 111, 114, 98, 105, 100, 100, 101, 110>>
    @@ "Not Found" :> <<78, 111, 116, 32, 70, 111, 117, 110, 100>>
    @@ "Method Not Allowed" :> <<77, 101, 116, 104, 111, 100, 32, 78, 111, 116, 32, 65, 108, 108, 111, 119, 101, 100>>
    @@ "Not Acceptable" :> <<78, 111, 116, 32, 65, 99, 99, 101, 112, 116, 97, 98, 108, 101>>
    @@ "Request Timeout" :> <<82, 101, 113, 117, 101, 115, 116, 32, 84, 105, 109, 101, 111, 117, 116>>
    @@ "Conflict" :> <<67, 111, 110, 102, 108, 105, 99, 116>>
    @@ "Gone" :> <<71, 111, 110, 101>>
    @@ "Unprocessable Entity" :> <<85, 110, 112, 114, 111, 99, 101, 115, 115, 97, 98, 108, 101, 32, 69, 110, 116, 105, 116, 121>>
    @@ "Too Many Requests" :> <<84, 111, 111, 32, 77, 97, 110, 121, 32, 82, 101, 113, 117, 101, 115, 116, 115>>
    @@ "Internal Server Error" :> <<73, 110, 116, 101, 114, 110, 97, 108, 32, 83, 101, 114, 118, 101, 114, 32, 69, 114, 114, 111, 114>>
    @@ "Not Implemented" :> <<78, 111, 116, 32, 73, 109, 112, 108, 101, 109, 101, 110, 116, 101, 100>>
    @@ "Bad Gateway" :> <<66, 97, 100, 32, 71, 97, 116, 101, 119, 97, 121>>
    @@ "Service Unavailable" :> <<83, 101, 114, 118, 105, 99, 101, 32, 85, 110, 97, 118, 97, 105, 108, 97, 98, 108, 101>>
    @@ "Gateway Timeout" :> <<71, 97, 116, 101, 119, 97, 121, 32, 84, 105, 109, 101, 111, 117, 116>>
    @@ "HTTP Version Not Supported" :> <<72, 84, 84, 80, 32, 86, 101, 114, 115, 105, 111, 110, 32, 78, 111, 116, 32, 83, 117, 112, 112, 111, 114, 116, 101, 100>>
    @@ "Unknown" :> <<85, 110, 107, 110, 111, 119, 110>>

\* "HTTP/{}.{} {} {}\r\n"
StatusLine(r) ==
    <<72, 84, 84, 80, 47>> \o Decimal(r.version[1]) \o <<46>>
        \o Decimal(r.version[2]) \o <<32>> \o Decimal(Code(r.status)) \o <<32>>
        \o PhraseBytes[ReasonPhrase(r.status)] \o CRLF

\* "{}: {}\r\n" of one entry
HeaderLineBytes(e) == Utf8Encode(e[1]) \o <<58, 32>> \o Utf8Encode(e[2]) \o CRLF

\* A to_bytes that adds a Content-Length header of the body.
ToBytesWithContentLength(r) ==
    { Ok(StatusLine(r)
            \o Concat([i \in 1..Len(order) |-> HeaderLineBytes(order[i])])
            \o <<67, 111, 110, 116, 101, 110, 116, 45, 76, 101, 110, 103, 116, 104, 58, 32>>
            \o Decimal(Len(r.body)) \o CRLF
            \o CRLF \o r.body) :
        order \in HeadersIter(r.headers) }

\* Response::to_bytes: one result for each order in which iter() may visit
\* the headers; writing into a BytesMut does not fail
ToBytes(r) ==
    { Ok(StatusLine(r)
            \o Concat([i \in 1..Len(order) |-> HeaderLineBytes(order[i])])
            \o CRLF \o r.body) :
        order \in HeadersIter(r.headers) }

----------------------------------------------------------------------------
(* The response builder as a state machine: a caller chains status, header *)
(* and body calls on a new builder, builds the Response and serializes it. *)

\* OK, NO_CONTENT and StatusCode::new(599), which has no phrase of its own
StatusArgs == {StatusConstants.OK, StatusConstants.NO_CONTENT, StatusCodeNew(599).val}

ContentType == <<67, 111, 110, 116, 101, 110, 116, 45, 84, 121, 112, 101>>
ColonAccent == <<58, 32, 233>>
ApplicationJson == <<97, 112, 112, 108, 105, 99, 97, 116, 105, 111, 110, 47, 106, 115, 111, 110>>

\* "Content-Type", "A:", and "a b", which the name rule refuses
HeaderNameArgs == {ContentType, <<65, 58>>, <<97, 32, 98>>}
\* "application/json", ": " followed by "e" with an acute accent, and a line feed, which the
\* value rule refuses
HeaderValueArgs == {ApplicationJson, ColonAccent, <<10>>}
\* no byte, CR LF CR LF, a byte that is not UTF-8
BodyArgs == {<<>>, <<13, 10, 13, 10>>, <<128>>}

StatusCall(status) == [op |-> "status", status |-> status]
HeaderCall(name, value) == [op |-> "header", name |-> name, value |-> value]
BodyCall(body) == [op |-> "body", body |-> body]

InitBuilder ==
    /\ builder = ResponseBuilderNew
    /\ calls = <<>>
    /\ response = None
    /\ wire = Pending
    /\ InitIdleHeaders /\ InitIdleValidate /\ InitIdleStatus /\ InitIdleParse /\ InitIdleQuery

SetStatus(status) ==
    /\ ~response.some
    /\ Len(calls) < MaxBuilderCalls
    /\ builder' = BuilderStatus(builder, status)
    /\ calls' = Append(calls, StatusCall(status))
    /\ UNCHANGED <<response, wire, hvars, vvars, svars, pvars, qvars>>

AddHeader(name, value) ==
    /\ ~response.some
    /\ Len(calls) < MaxBuilderCalls
    /\ builder' = BuilderHeader(builder, name, value)
    /\ calls' = Append(calls, HeaderCall(name, value))
    /\ UNCHANGED <<response, wire, hvars, vvars, svars, pvars, qvars>>

SetBody(body) ==
    /\ ~response.some
    /\ Len(calls) < MaxBuilderCalls
    /\ builder' = BuilderBody(builder, body)
    /\ calls' = Append(calls, BodyCall(body))
    /\ UNCHANGED <<response, wire, hvars, vvars, svars, pvars, qvars>>

\* build() consumes the builder
Build ==
    /\ ~response.some
    /\ response' = Some(BuilderBuild(builder))
    /\ UNCHANGED <<builder, calls, wire, hvars, vvars, svars, pvars, qvars>>

\* to_bytes() borrows the Response, so it can be called again
Serialize ==
    /\ response.some
    /\ wire' \in ToBytes(response.val)
    /\ UNCHANGED <<builder, calls, response, hvars, vvars, svars, pvars, qvars>>

NextBuilder ==
    \/ \E status \in StatusArgs : SetStatus(status)
    \/ \E name \in HeaderNameArgs, value \in HeaderValueArgs : AddHeader(name, value)
    \/ \E body \in BodyArgs : SetBody(body)
    \/ Build
    \/ Serialize

SpecBuilder == InitBuilder /\ [][NextBuilder]_vars

\* The calls of one kind, in the order they were made
CallsOf(op) == SelectSeq(calls, LAMBDA c : c.op = op)

\* C15: a new builder that is built at once gives status 200, version (1, 1),
\* no header and an empty body; every built Response has version (1, 1), and
\* an empty body when body() was never called.
C15_BuildDefaults ==
    response.some =>
        /\ response.val.version = <<1, 1>>
        /\ CallsOf("body") = <<>> => response.val.body = <<>>
        /\ calls = <<>> =>
                /\ response.val.status = 200
                /\ DOMAIN response.val.headers = {}
                /\ response.val.body = <<>>

\* C15 witness: new() followed directly by build().
C15_Witness == calls = <<>> /\ response.some

\* C15, the general case reached as well: a status and a header were set, no
\* body, and the Response was built.
C15_WitnessNoBody ==
    /\ response.some
    /\ Len(calls) = 2
    /\ CallsOf("body") = <<>>
    /\ DOMAIN response.val.headers # {}

\* The header() calls whose name and value pass the rules of Headers
ValidHeaderCalls ==
    SelectSeq(calls, LAMBDA c :
        c.op = "header" /\ ~NameRuleFails(c.name) /\ ~ValueRuleFails(c.value))

C16_HeaderStep ==
    /\ Len(calls') > Len(calls) =>
        LET c == calls'[Len(calls')]
        IN  c.op = "header" /\ (NameRuleFails(c.name) \/ ValueRuleFails(c.value)) =>
                builder' = builder
    /\ response'.some =>
        \A n \in DOMAIN response'.val.headers :
            \E i \in 1..Len(ValidHeaderCalls') :
                /\ ValidHeaderCalls'[i].name = n
                /\ ValidHeaderCalls'[i].value = response'.val.headers[n]

\* C16: a header() call with an invalid name or value returns the builder as
\* it was (status, body and headers, so a value stored earlier under that
\* name stays), and every header of the built Response comes from a header()
\* call with a valid name and value.
C16_InvalidHeaderDropped == [][C16_HeaderStep]_vars

\* C16 witness: a header was stored, then header() was called for the same
\* name with a value the rule refuses; the earlier value is in place.
C16_Witness ==
    /\ calls = <<HeaderCall(ContentType, ApplicationJson), HeaderCall(ContentType, <<10>>)>>
    /\ HeadersGet(builder.headers, ContentType) = Some(ApplicationJson)

\* C16, the built Response: header() was called with a name containing a
\* space and the Response was built without that header.
C16_WitnessOmitted ==
    /\ response.some
    /\ \E i \in 1..Len(calls) : calls[i].op = "header" /\ calls[i].name = <<97, 32, 98>>
    /\ HeadersGet(response.val.headers, <<97, 32, 98>>) = None
    /\ DOMAIN response.val.headers # {}

\* The status lines of the three statuses, written out
ExpectedStatusLine(status) ==
    CASE status = 200 -> <<72, 84, 84, 80, 47, 49, 46, 49, 32, 50, 48, 48, 32, 79, 75, 13, 10>>
      [] status = 204 -> <<72, 84, 84, 80, 47, 49, 46, 49, 32, 50, 48, 52, 32, 78, 111, 32, 67, 111, 110, 116, 101, 110, 116, 13, 10>>
      [] status = 599 -> <<72, 84, 84, 80, 47, 49, 46, 49, 32, 53, 57, 57, 32, 85, 110, 107, 110, 111, 119, 110, 13, 10>>

\* The header lines of the four headers the builder accepts, written out
ExpectedHeaderLine(name, value) ==
    CASE name = ContentType /\ value = ApplicationJson ->
            <<67, 111, 110, 116, 101, 110, 116, 45, 84, 121, 112, 101, 58, 32, 97, 112, 112, 108, 105, 99, 97, 116, 105, 111, 110, 47, 106, 115, 111, 110, 13, 10>>
      [] name = ContentType /\ value = ColonAccent ->
            <<67, 111, 110, 116, 101, 110, 116, 45, 84, 121, 112, 101, 58, 32, 58, 32, 195, 169, 13, 10>>
      [] name = <<65, 58>> /\ value = ApplicationJson ->
            <<65, 58, 58, 32, 97, 112, 112, 108, 105, 99, 97, 116, 105, 111, 110, 47, 106, 115, 111, 110, 13, 10>>
      [] name = <<65, 58>> /\ value = ColonAccent ->
            <<65, 58, 58, 32, 58, 32, 195, 169, 13, 10>>

\* C17: to_bytes gives the status line, then the line of each stored header
\* once, in some order, then an empty line, then the body, and nothing else;
\* the 204 response with Content-Type: application/json and no body gives
\* exactly its status line, that header line and the empty line.
C17_WireFormat ==
    wire # Pending =>
        /\ wire.ok
        /\ LET r == response.val
               names == DOMAIN r.headers
               k == Cardinality(names)
           IN  \E f \in [1..k -> names] :
                    /\ \A n \in names : \E i \in 1..k : f[i] = n
                    /\ wire.val =
                            ExpectedStatusLine(r.status)
                            \o Concat([i \in 1..k |-> ExpectedHeaderLine(f[i], r.headers[f[i]])])
                            \o <<13, 10>> \o r.body
        /\ ( /\ response.val.status = 204
             /\ Entries(response.val.headers) = {<<ContentType, ApplicationJson>>}
             /\ response.val.body = <<>> ) =>
                wire.val = <<72, 84, 84, 80, 47, 49, 46, 49, 32, 50, 48, 52, 32, 78, 111, 32, 67, 111, 110, 116, 101, 110, 116, 13, 10, 67, 111, 110, 116, 101, 110, 116, 45, 84, 121, 112, 101, 58, 32, 97, 112, 112, 108, 105, 99, 97, 116, 105, 111, 110, 47, 106, 115, 111, 110, 13, 10, 13, 10>>

\* C17 witness: the 204 response of the example was serialized.
C17_Witness ==
    /\ calls = <<StatusCall(204), HeaderCall(ContentType, ApplicationJson)>>
    /\ response.some
    /\ wire # Pending

\* C17, two headers and a body: serialized with the line of "A:" first.
C17_WitnessTwoHeaders ==
    /\ wire # Pending
    /\ Cardinality(DOMAIN response.val.headers) = 2
    /\ response.val.body = <<128>>
    /\ SubSeq(wire.val, 1, Len(ExpectedStatusLine(200)) + 3) =
            ExpectedStatusLine(200) \o <<65, 58, 58>>

----------------------------------------------------------------------------
(* Reading a serialized response back, as the tests of response.rs do:     *)
(* split at the first empty line, split the head into lines, take the      *)
(* first line as the status line and the others as "name: value".          *)

\* The first position at which pat occurs in w, Len(w) + 1 if there is none
Find(w, pat) ==
    LET hits == {i \in 1..(Len(w) - Len(pat) + 1) :
                    SubSeq(w, i, i + Len(pat) - 1) = pat}
    IN  IF hits = {} THEN Len(w) + 1
        ELSE CHOOSE i \in hits : \A j \in hits : i <= j

\* splitn(2, "\r\n\r\n"): the head and the rest
SplitHead(w) ==
    LET i == Find(w, <<13, 10, 13, 10>>)
    IN  [head |-> SubSeq(w, 1, i - 1), body |-> SubSeq(w, i + 4, Len(w))]

\* split("\r\n")
RECURSIVE SplitLines(_)
SplitLines(h) ==
    LET i == Find(h, <<13, 10>>)
    IN  IF i > Len(h) THEN <<h>>
        ELSE <<SubSeq(h, 1, i - 1)>> \o SplitLines(SubSeq(h, i + 2, Len(h)))

\* The number a run of decimal digits stands for
RECURSIVE ParseDecimal(_)
ParseDecimal(ds) ==
    IF ds = <<>> THEN 0
    ELSE 10 * ParseDecimal(SubSeq(ds, 1, Len(ds) - 1)) + (ds[Len(ds)] - 48)

\* The status code of a status line: the digits between its first two spaces
StatusLineCode(line) ==
    LET i == Find(line, <<32>>)
        rest == SubSeq(line, i + 1, Len(line))
    IN  ParseDecimal(SubSeq(rest, 1, Find(rest, <<32>>) - 1))

\* The name and the value of a header line, split at its first ": " and
\* decoded
HeaderLinePair(line) ==
    LET i == Find(line, <<58, 32>>)
    IN  <<FromUtf8(SubSeq(line, 1, i - 1)), FromUtf8(SubSeq(line, i + 2, Len(line)))>>

Reparse(w) ==
    LET parts == SplitHead(w)
        lines == SplitLines(parts.head)
    IN  [ code |-> StatusLineCode(lines[1]),
          headers |-> {HeaderLinePair(lines[i]) : i \in 2..Len(lines)},
          body |-> parts.body ]

\* C18: reading back what to_bytes wrote gives the status code, the set of
\* header name/value pairs and the body bytes of the Response.
C18_RoundTrip ==
    wire # Pending =>
        Reparse(wire.val) =
            [ code |-> Code(response.val.status),
              headers |-> {<<Ok(e[1]), Ok(e[2])>> : e \in Entries(response.val.headers)},
              body |-> response.val.body ]

\* C18 witness: a response with a header whose name ends in a colon and whose
\* value starts with ": " and is not ASCII, and a body that is an empty line
\* twice, was written and read back.
C18_Witness ==
    /\ wire # Pending
    /\ Entries(response.val.headers) = {<<(<<65, 58>>), ColonAccent>>}
    /\ response.val.body = <<13, 10, 13, 10>>
    /\ Reparse(wire.val).body = <<13, 10, 13, 10>>

----------------------------------------------------------------------------
(* What a chain of builder calls amounts to.                               *)

\* The header() calls cs, from call i on, applied in order to the Headers m
RECURSIVE ApplyHeaderCalls(_, _, _)
ApplyHeaderCalls(cs, i, m) ==
    IF i > Len(cs) THEN m
    ELSE ApplyHeaderCalls(cs, i + 1, HeadersInsert(m, cs[i].name, cs[i].value).map)

LastStatus ==
    LET cs == CallsOf("status")
    IN  IF cs = <<>> THEN 200 ELSE cs[Len(cs)].status

LastBody ==
    LET cs == CallsOf("body")
    IN  IF cs = <<>> THEN <<>> ELSE cs[Len(cs)].body

\* C19: the built Response has the status of the last status() call (200 if
\* none), the body of the last body() call (empty if none) and the headers
\* that the header() calls, applied in order to an empty Headers, leave; each
\* part depends on the calls of its own kind only, so calls of different
\* kinds commute.
C19_BuildIsFoldOfCalls ==
    response.some =>
        /\ response.val =
            [ status |-> LastStatus,
              version |-> <<1, 1>>,
              headers |-> ApplyHeaderCalls(CallsOf("header"), 1, HeadersNew),
              body |-> LastBody ]
        /\ \A n \in DOMAIN response.val.headers :
            LET cs == ValidHeaderCalls
                last == CHOOSE i \in 1..Len(cs) :
                            /\ cs[i].name = n
                            /\ \A j \in (i + 1)..Len(cs) : cs[j].name # n
            IN  response.val.headers[n] = cs[last].value

\* C19 witness: body, header and status were called in this order, the body
\* first, and the Response was built.
C19_Witness ==
    /\ response.some
    /\ calls = <<BodyCall(<<128>>), HeaderCall(ContentType, ApplicationJson), StatusCall(204)>>
    /\ response.val.body = <<128>>

\* C19, the later value for the same name: two valid header() calls for
\* Content-Type, the second value is in the Response.
C19_WitnessLaterWins ==
    /\ response.some
    /\ CallsOf("header") =
            <<HeaderCall(ContentType, ColonAccent), HeaderCall(ContentType, ApplicationJson)>>
    /\ Entries(response.val.headers) = {<<ContentType, ApplicationJson>>}

----------------------------------------------------------------------------
(* Every way to a Headers collection: a caller's own collection, the       *)
(* collection of a parsed Request, the collection of a builder and of the  *)
(* Response built from it.                                                 *)

InitCollections == InitHeaders \/ InitIngest \/ InitBuilder

NextCollections ==
    \/ pIn = NoInput /\ builder = NoBuilder /\ NextHeaders
    \/ pIn # NoInput /\ NextParse
    \/ builder # NoBuilder /\ NextBuilder

SpecCollections == InitCollections /\ [][NextCollections]_vars

\* Every name and value stored in m passes the rules
StoredValid(m) ==
    \A n \in DOMAIN m : ~NameRuleFails(n) /\ ~ValueRuleFails(m[n])

AllStoredValid ==
    /\ StoredValid(headers)
    /\ pIn # NoInput /\ pOut.ok => StoredValid(pOut.val.headers)
    /\ builder # NoBuilder => StoredValid(builder.headers)
    /\ builder # NoBuilder /\ response.some => StoredValid(response.val.headers)

C20_Step ==
    /\ AllStoredValid'
    /\ hcall'.op = "get" => headers' = headers

\* C20: in every Headers collection reached through Headers::new and insert,
\* through parse_request or through the response builder, every stored name
\* is non-empty and free of control and whitespace characters and every
\* stored value is free of control characters other than tab; a get call
\* leaves the collection as it was.
C20_StoredHeadersValid == [][C20_Step]_vars

\* C20 witness: get was called with a name the rule refuses, on a collection
\* that holds an entry; nothing was added.
C20_Witness ==
    /\ hcall = [op |-> "get", name |-> <<32>>, value |-> <<>>]
    /\ hret = None
    /\ Cardinality(DOMAIN headers) = 1

\* C20, the parser: a Request with two headers was returned.
C20_WitnessRequest ==
    /\ pIn # NoInput
    /\ pOut.ok
    /\ Cardinality(DOMAIN pOut.val.headers) = 2

\* C20, the builder: refused header() calls were made and a Response with a
\* header was built.
C20_WitnessResponse ==
    /\ builder # NoBuilder
    /\ response.some
    /\ Len(ValidHeaderCalls) < Len(CallsOf("header"))
    /\ DOMAIN response.val.headers # {}

----------------------------------------------------------------------------
(* Header lines that repeat a name.                                        *)

\* The header lines of the request with the name n, as positions in the head
LinesNamed(n) == {i \in 1..Len(pIn.lines) : pIn.lines[i].name = n}

\* The greatest position of a set of positions
Last(S) == CHOOSE i \in S : \A j \in S : j <= i

\* C21: a head whose header lines can all be ingested, some of them with the
\* same name byte for byte, gives a Request; its Headers has one entry for
\* each name that occurs, with the value of the last line of that name, and
\* names that differ in letter case only have entries of their own.
C21_LastDuplicateWins ==
    (pOut # Pending /\ BadLines = {}) =>
        /\ pOut.ok
        /\ DOMAIN pOut.val.headers = {pIn.lines[i].name : i \in 1..Len(pIn.lines)}
        /\ \A n \in DOMAIN pOut.val.headers :
                pOut.val.headers[n] = pIn.lines[Last(LinesNamed(n))].value

\* C21 witness: "Host: a" then "Host: b"; the Request holds Host with "b"
\* and nothing else.
C21_Witness ==
    /\ pIn.lines = <<HostA, HostB>>
    /\ pOut.ok
    /\ Entries(pOut.val.headers) = {<<HostA.name, HostB.value>>}

\* C21, names that differ in case: "Host: b" then "host: a" give two entries.
C21_WitnessCase ==
    /\ pIn.lines = <<HostB, HostLower>>
    /\ pOut.ok
    /\ Entries(pOut.val.headers) =
            {<<HostB.name, HostB.value>>, <<HostLower.name, HostLower.value>>}

----------------------------------------------------------------------------
(* Line breaks in a serialized response.                                   *)

\* The bytes of the output before the body of the Response
WireHead == SubSeq(wire.val, 1, Len(wire.val) - Len(response.val.body))

\* C22: in the output of to_bytes the only CR and LF bytes before the body
\* are those of the CR LF that ends the status line, each header line and
\* the empty line; so the first CR LF CR LF ends the header section and the
\* bytes after it are the body.
C22_NoLineBreakInHead ==
    wire # Pending =>
        LET w == wire.val
            body == response.val.body
            k == Cardinality(DOMAIN response.val.headers)
            CRs == {i \in 1..Len(WireHead) : WireHead[i] = 13}
            LFs == {i \in 1..Len(WireHead) : WireHead[i] = 10}
        IN  /\ Len(w) >= Len(body)
            /\ Cardinality(CRs) = k + 2
            /\ LFs = {i + 1 : i \in CRs}
            /\ Find(w, <<13, 10, 13, 10>>) + 3 = Len(WireHead)
            /\ SubSeq(w, Find(w, <<13, 10, 13, 10>>) + 4, Len(w)) = body

\* C22 witness: header() was called with a value that is a line feed, a
\* header is stored, the body holds CR LF CR LF, and the Response was
\* serialized.
C22_Witness ==
    /\ wire # Pending
    /\ \E i \in 1..Len(calls) : calls[i].op = "header" /\ calls[i].value = <<10>>
    /\ DOMAIN response.val.headers # {}
    /\ response.val.body = <<13, 10, 13, 10>>

----------------------------------------------------------------------------
(* rin_core/src/request.rs: QueryCache.                                    *)

Single(v) == [kind |-> "Single", val |-> v]
Multiple(vec) == [kind |-> "Multiple", vec |-> vec]

\* QueryCache::new
QueryCacheNew == <<>>

\* An insert that overwrites the single value of a key that comes again.
QueryInsertOverwriting(m, key, value) ==
    IF key \in DOMAIN m
    THEN IF m[key].kind = "Single"
         THEN [m EXCEPT ![key] = Single(value)]
         ELSE [m EXCEPT ![key] = Multiple(Append(m[key].vec, value))]
    ELSE [k \in (DOMAIN m) \cup {key} |-> IF k = key THEN Single(value) ELSE m[k]]

\* QueryCache::insert: entry(key).and_modify(..).or_insert(Single(value))
QueryInsert(m, key, value) ==
    IF key \in DOMAIN m
    THEN IF m[key].kind = "Single"
         THEN [m EXCEPT ![key] = Multiple(<<m[key].val, value>>)]
         ELSE [m EXCEPT ![key] = Multiple(Append(m[key].vec, value))]
    ELSE [k \in (DOMAIN m) \cup {key} |-> IF k = key THEN Single(value) ELSE m[k]]

\* QueryCache::get; vec.first() is None on an empty vector
QueryGet(m, key) ==
    IF key \notin DOMAIN m THEN None
    ELSE IF m[key].kind = "Single" THEN Some(m[key].val)
    ELSE IF m[key].vec = <<>> THEN None
    ELSE Some(m[key].vec[1])

\* QueryCache::get_all
QueryGetAll(m, key) ==
    IF key \notin DOMAIN m THEN None
    ELSE IF m[key].kind = "Single" THEN None
    ELSE Some(m[key].vec)

\* str::split(c): the pieces between the occurrences of c; one piece, the
\* whole string, if there is none
RECURSIVE Split(_, _)
Split(str, c) ==
    LET i == Find(str, <<c>>)
    IN  IF i > Len(str) THEN <<str>>
        ELSE <<SubSeq(str, 1, i - 1)>> \o Split(SubSeq(str, i + 1, Len(str)), c)

\* pair.splitn(2, '=') with unwrap_or("") for key and value
KeyValue(pair) ==
    LET i == Find(pair, <<61>>)
    IN  [key |-> SubSeq(pair, 1, i - 1), value |-> SubSeq(pair, i + 1, Len(pair))]

\* The loop of QueryCache::parse over the pairs, from pair i on, into m
RECURSIVE InsertPairs(_, _, _)
InsertPairs(pairs, i, m) ==
    IF i > Len(pairs) THEN m
    ELSE LET kv == KeyValue(pairs[i])
         IN  InsertPairs(pairs, i + 1, QueryInsert(m, kv.key, kv.value))

\* QueryCache::parse
QueryCacheParse(query) ==
    IF query = <<>> THEN QueryCacheNew
    ELSE InsertPairs(Split(query, 38), 1, QueryCacheNew)

----------------------------------------------------------------------------
(* The cache as a state machine: it is made by new() or by parse(), then   *)
(* insert, get and get_all are called on it in any order.                  *)

\* "a", "b" and the empty key
QueryKeys == {<<97>>, <<98>>, <<>>}
\* "1", "2" and the empty value
QueryValues == {<<49>>, <<50>>, <<>>}

\* Pairs as they stand in a query string, with the key and the value they
\* stand for: "a=1", "a=2", "b=1", "a", "a=1=2", "" and "=1"
PairTexts ==
    { [text |-> <<97, 61, 49>>, key |-> <<97>>, value |-> <<49>>],
      [text |-> <<97, 61, 50>>, key |-> <<97>>, value |-> <<50>>],
      [text |-> <<98, 61, 49>>, key |-> <<98>>, value |-> <<49>>],
      [text |-> <<97>>, key |-> <<97>>, value |-> <<>>],
      [text |-> <<97, 61, 49, 61, 50>>, key |-> <<97>>, value |-> <<49, 61, 50>>],
      [text |-> <<>>, key |-> <<>>, value |-> <<>>],
      [text |-> <<61, 49>>, key |-> <<>>, value |-> <<49>>] }

\* The query string of these pairs: their texts with '&' between them
RECURSIVE Join(_)
Join(ps) ==
    IF ps = <<>> THEN <<>>
    ELSE IF Len(ps) = 1 THEN ps[1].text
    ELSE ps[1].text \o <<38>> \o Join(Tail(ps))

NoQueryCall == [op |-> "none"]

InitQuery ==
    /\ params = QueryCacheNew
    /\ qlog = <<>>
    /\ qret = NoQueryCall
    /\ InitIdleHeaders /\ InitIdleValidate /\ InitIdleStatus /\ InitIdleParse /\ InitIdleResponse

\* QueryCache::parse in place of QueryCache::new; the empty query string has
\* no pair
QueryParse(ps) ==
    /\ qlog = <<>>
    /\ qret = NoQueryCall
    /\ params' = QueryCacheParse(Join(ps))
    /\ qlog' = IF Join(ps) = <<>> THEN <<>>
               ELSE [i \in 1..Len(ps) |-> <<ps[i].key, ps[i].value>>]
    /\ qret' = [op |-> "parse"]
    /\ UNCHANGED <<hvars, vvars, svars, pvars, rvars>>

QueryCacheInsert(key, value) ==
    /\ Len(qlog) < MaxQueryInserts
    /\ params' = QueryInsert(params, key, value)
    /\ qlog' = Append(qlog, <<key, value>>)
    /\ qret' = [op |-> "insert"]
    /\ UNCHANGED <<hvars, vvars, svars, pvars, rvars>>

QueryCacheGet(key) ==
    /\ qret' = [op |-> "get", key |-> key, ret |-> QueryGet(params, key)]
    /\ UNCHANGED <<params, qlog, hvars, vvars, svars, pvars, rvars>>

QueryCacheGetAll(key) ==
    /\ qret' = [op |-> "get_all", key |-> key, ret |-> QueryGetAll(params, key)]
    /\ UNCHANGED <<params, qlog, hvars, vvars, svars, pvars, rvars>>

NextQuery ==
    \/ \E ps \in SeqsUpTo(PairTexts, MaxQueryInserts) : QueryParse(ps)
    \/ \E key \in QueryKeys, value \in QueryValues : QueryCacheInsert(key, value)
    \/ \E key \in QueryKeys : QueryCacheGet(key)
    \/ \E key \in QueryKeys : QueryCacheGetAll(key)

SpecQuery == InitQuery /\ [][NextQuery]_vars

\* The values inserted for the key, in the order of insertion
InsertedFor(key) ==
    LET hits == SelectSeq(qlog, LAMBDA e : e[1] = key)
    IN  [i \in 1..Len(hits) |-> hits[i][2]]

\* C23: after any sequence of inserts, those of parse included, get(k) gives
\* the first value inserted for k and None if there is none; get_all(k) gives
\* all values inserted for k in the order of insertion if there are two or
\* more, and None if there is one or none.
C23_QueryCacheLookups ==
    /\ qret.op = "get" =>
        qret.ret = IF InsertedFor(qret.key) = <<>> THEN None
                   ELSE Some(InsertedFor(qret.key)[1])
    /\ qret.op = "get_all" =>
        qret.ret = IF Len(InsertedFor(qret.key)) >= 2 THEN Some(InsertedFor(qret.key))
                   ELSE None

\* C23 witness: a query that starts with "a=1=2" was parsed, "a" was
\* inserted again with the empty value, and get_all("a") returned "1=2" and
\* the empty value.
C23_Witness ==
    /\ qlog = <<(<<(<<97>>), (<<49, 61, 50>>)>>), (<<(<<97>>), (<<>>)>>)>>
    /\ qret = [op |-> "get_all", key |-> <<97>>, ret |-> Some(<<(<<49, 61, 50>>), (<<>>)>>)]

\* C23, get on a key inserted three times: the first value.
C23_WitnessFirst ==
    /\ Len(InsertedFor(<<97>>)) = 3
    /\ InsertedFor(<<97>>)[1] # InsertedFor(<<97>>)[3]
    /\ qret.op = "get" /\ qret.key = <<97>> /\ qret.ret = Some(InsertedFor(<<97>>)[1])

\* C23, get_all on a key inserted once: None.
C23_WitnessOnce ==
    /\ Len(InsertedFor(<<98>>)) = 1
    /\ qret.op = "get_all" /\ qret.key = <<98>> /\ qret.ret = None

====
